---- MODULE Spec2Model ----
(***************************************************************************)
(* The tag editor of src/app.py: a Record Store (tag_docs.json, the list   *)
(* tags_data) mirrored into an Index Store (the ChromaDB collection        *)
(* tag_docs) under ids derived from the tag names.  Every action is one    *)
(* run of the Streamlit script with one button pressed.                    *)
(***************************************************************************)
EXTENDS Integers, Sequences, FiniteSets, TLC

VARIABLES
    tags_data,    \* the Record Store: the list load_tags() returns
    chroma,       \* the Index Store: id -> document, DOMAIN = the ids present
    hash_seed,    \* the salt of this process's hash() on strings
    sync_status,  \* the mapping the script computed at its top (line 117)
    last          \* what the last script run was told and what it did

vars == <<tags_data, chroma, hash_seed, sync_status, last>>

----------------------------------------------------------------------------
(* Bounds of the model *)

\* longest tag_docs.json the program starts from
MaxJsonLen == 2

(* The modulus of get_tag_id, 10**8 *)
IdModulus == 100000000

TagNames == {"a", "b"}

\* hash(str) under three salts: the second swaps the residues of the first,
\* the third sends both tags to one residue (from either side of zero)
Seeds == {1, 2, 3}

str_hash(seed, s) ==
    CASE seed = 1 -> (IF s = "a" THEN 1 ELSE 2)
      [] seed = 2 -> (IF s = "a" THEN 100000002 ELSE 1)
      [] seed = 3 -> (IF s = "a" THEN -99999999 ELSE 100000001)

\* what the Index Store client can do during one call of a handler
Faults == {"none", "get", "write"}

----------------------------------------------------------------------------
(* Text *)

RECURSIVE lstrip(_)
lstrip(s) ==
    IF Len(s) > 0 /\ SubSeq(s, 1, 1) = " " THEN lstrip(SubSeq(s, 2, Len(s))) ELSE s

RECURSIVE rstrip(_)
rstrip(s) ==
    IF Len(s) > 0 /\ SubSeq(s, Len(s), Len(s)) = " "
    THEN rstrip(SubSeq(s, 1, Len(s) - 1)) ELSE s

strip(s) == rstrip(lstrip(s))

startswith(s, p) == Len(s) >= Len(p) /\ SubSeq(s, 1, Len(p)) = p

\* dict.get(key, default)
dict_get(d, key, default) == IF key \in DOMAIN d THEN d[key] ELSE default

\* d[key] = value
dict_set(d, key, value) ==
    [k \in DOMAIN d \cup {key} |-> IF k = key THEN value ELSE d[k]]

EmptyDict == [k \in {} |-> FALSE]

----------------------------------------------------------------------------
(* Records *)

\* the records a hand-written tag_docs.json holds: with one optional field
\* and without the other, and without any field but the tag
JsonRecords ==
    UNION {{ [tag |-> t, description |-> "d", category |-> "c"],
             [tag |-> t] } : t \in TagNames}

RECURSIVE SeqsUpTo(_, _)
SeqsUpTo(S, n) ==
    IF n = 0 THEN {<<>>}
    ELSE LET shorter == SeqsUpTo(S, n - 1)
         IN  shorter \cup {Append(s, x) : s \in {q \in shorter : Len(q) = n - 1}, x \in S}

TagsOf(data) == {data[i].tag : i \in DOMAIN data}

\* format_entry: KeyError unless tag and description are there
format_entry(tag_dict) ==
    IF {"tag", "description"} \subseteq DOMAIN tag_dict
    THEN [raised |-> FALSE,
          text |-> "Tag: " \o tag_dict["tag"] \o "\n"
                   \o "Description: " \o tag_dict["description"] \o "\n"
                   \o "Instruction: " \o dict_get(tag_dict, "merge_instruction", "") \o "\n"
                   \o "Category: " \o dict_get(tag_dict, "category", "") \o "\n"]
    ELSE [raised |-> TRUE, text |-> "KeyError"]

\* get_tag_id: f"tag_{hash(tag_name) % (10**8)}"
get_tag_id(tag_name) == "tag_" \o ToString(str_hash(hash_seed, tag_name) % IdModulus)

----------------------------------------------------------------------------
(* The Index Store client (the chromadb collection the handlers call) *)

\* db.get(ids=...)['ids']
db_get(db, ids) == {i \in ids : i \in DOMAIN db}

\* db.update writing the document over every entry of the collection
db_update_all(db, id, doc) == IF id \in DOMAIN db THEN [i \in DOMAIN db |-> doc] ELSE db

\* db.update(ids=[id], documents=[doc])
db_update(db, id, doc) == IF id \in DOMAIN db THEN [db EXCEPT ![id] = doc] ELSE db

\* db.add(documents=[doc], ids=[id])
db_add(db, id, doc) == IF id \in DOMAIN db THEN db ELSE dict_set(db, id, doc)

\* db.delete(ids=...)
db_delete(db, ids) == [i \in DOMAIN db \ ids |-> db[i]]

Returned(s) == [kind |-> "return", value |-> s]
Raised(s) == [kind |-> "raise", value |-> s]

\* sync_tag_to_chroma adding a second entry when it finds the id, in place of
\* the update
sync_tag_duplicating(tag_data, db, fault) ==
    LET doc == format_entry(tag_data)
        tag_id == get_tag_id(tag_data["tag"])
        err == [db |-> db,
                out |-> Returned("Error syncing tag '" \o tag_data["tag"] \o "': " \o fault)]
    IN  IF doc.raised THEN [db |-> db, out |-> Raised(doc.text)]
        ELSE IF fault = "get" THEN err
        ELSE IF db_get(db, {tag_id}) # {}
        THEN IF fault = "write" THEN err
             ELSE [db |-> db_add(db, tag_id \o "_2", doc.text),
                   out |-> Returned("Updated tag '" \o tag_data["tag"] \o "' in ChromaDB")]
        ELSE IF fault = "write" THEN err
             ELSE [db |-> db_add(db, tag_id, doc.text),
                   out |-> Returned("Added tag '" \o tag_data["tag"] \o "' to ChromaDB")]

\* sync_tag_to_chroma: the Index Store it leaves and what the caller gets
sync_tag_to_chroma(tag_data, db, fault) ==
    LET doc == format_entry(tag_data)
        tag_id == get_tag_id(tag_data["tag"])
        err == [db |-> db,
                out |-> Returned("Error syncing tag '" \o tag_data["tag"] \o "': " \o fault)]
    IN  IF doc.raised THEN [db |-> db, out |-> Raised(doc.text)]
        ELSE IF fault = "get" THEN err
        ELSE IF db_get(db, {tag_id}) # {}
        THEN IF fault = "write" THEN err
             ELSE [db |-> db_update(db, tag_id, doc.text),
                   out |-> Returned("Updated tag '" \o tag_data["tag"] \o "' in ChromaDB")]
        ELSE IF fault = "write" THEN err
             ELSE [db |-> db_add(db, tag_id, doc.text),
                   out |-> Returned("Added tag '" \o tag_data["tag"] \o "' to ChromaDB")]

\* remove_tag_from_chroma deleting by the tag name, not by the derived id
remove_tag_by_name(tag_name, db, fault) ==
    IF fault # "none"
    THEN [db |-> db, out |-> Returned("Error removing tag '" \o tag_name \o "': " \o fault)]
    ELSE [db |-> db_delete(db, {tag_name}),
          out |-> Returned("Removed tag '" \o tag_name \o "' from ChromaDB")]

\* remove_tag_from_chroma treating an id the Index Store lacks as a failure
remove_tag_strict(tag_name, db, fault) ==
    IF fault # "none" \/ get_tag_id(tag_name) \notin DOMAIN db
    THEN [db |-> db, out |-> Returned("Error removing tag '" \o tag_name \o "': " \o fault)]
    ELSE [db |-> db_delete(db, {get_tag_id(tag_name)}),
          out |-> Returned("Removed tag '" \o tag_name \o "' from ChromaDB")]

\* remove_tag_from_chroma
remove_tag_from_chroma(tag_name, db, fault) ==
    IF fault # "none"
    THEN [db |-> db, out |-> Returned("Error removing tag '" \o tag_name \o "': " \o fault)]
    ELSE [db |-> db_delete(db, {get_tag_id(tag_name)}),
          out |-> Returned("Removed tag '" \o tag_name \o "' from ChromaDB")]

\* check_sync_status looking the tag name up among the ids
RECURSIVE check_sync_status_by_name(_, _)
check_sync_status_by_name(data, chroma_ids) ==
    IF data = <<>> THEN EmptyDict
    ELSE LET n == Len(data)
             tag == data[n]
         IN  dict_set(check_sync_status_by_name(SubSeq(data, 1, n - 1), chroma_ids),
                      tag["tag"], tag["tag"] \in chroma_ids)

\* check_sync_status: the loop over tags_data, later records overwriting
RECURSIVE check_sync_status(_, _)
check_sync_status(data, chroma_ids) ==
    IF data = <<>> THEN EmptyDict
    ELSE LET n == Len(data)
             tag == data[n]
         IN  dict_set(check_sync_status(SubSeq(data, 1, n - 1), chroma_ids),
                      tag["tag"], get_tag_id(tag["tag"]) \in chroma_ids)

\* lines 116-117: get_chroma_status, then the mapping, {} without a db
script_sync_status(db_ok, data, db) ==
    IF db_ok THEN check_sync_status(data, DOMAIN db) ELSE EmptyDict

\* clean_orphaned_chroma_entries with the difference taken the wrong way round
clean_orphaned_swapped(data, db, fault) ==
    LET expected_ids == {get_tag_id(data[i]["tag"]) : i \in DOMAIN data}
        existing_ids == DOMAIN db
        orphaned_ids == expected_ids \ existing_ids
    IN  IF fault = "get" THEN [db |-> db, out |-> Raised("get")]
        ELSE IF orphaned_ids # {}
        THEN IF fault = "write"
             THEN [db |-> db, out |-> Returned("Error removing orphaned entries: " \o fault)]
             ELSE [db |-> db_delete(db, orphaned_ids),
                   out |-> Returned("Removed " \o ToString(Cardinality(orphaned_ids))
                                    \o " orphaned entries from ChromaDB")]
        ELSE [db |-> db, out |-> Returned("No orphaned entries found")]

\* clean_orphaned_chroma_entries reporting the orphans without deleting them
clean_orphaned_undeleted(data, db, fault) ==
    LET orphaned_ids == DOMAIN db \ {get_tag_id(data[i]["tag"]) : i \in DOMAIN data}
    IN  IF fault = "get" THEN [db |-> db, out |-> Raised("get")]
        ELSE IF orphaned_ids # {}
        THEN IF fault = "write"
             THEN [db |-> db, out |-> Returned("Error removing orphaned entries: " \o fault)]
             ELSE [db |-> db,
                   out |-> Returned("Removed " \o ToString(Cardinality(orphaned_ids))
                                    \o " orphaned entries from ChromaDB")]
        ELSE [db |-> db, out |-> Returned("No orphaned entries found")]

\* clean_orphaned_chroma_entries, called with a db; db.get() at line 317 is
\* outside the try
clean_orphaned_chroma_entries(data, db, fault) ==
    LET expected_ids == {get_tag_id(data[i]["tag"]) : i \in DOMAIN data}
        existing_ids == DOMAIN db
        orphaned_ids == existing_ids \ expected_ids
    IN  IF fault = "get" THEN [db |-> db, out |-> Raised("get")]
        ELSE IF orphaned_ids # {}
        THEN IF fault = "write"
             THEN [db |-> db, out |-> Returned("Error removing orphaned entries: " \o fault)]
             ELSE [db |-> db_delete(db, orphaned_ids),
                   out |-> Returned("Removed " \o ToString(Cardinality(orphaned_ids))
                                    \o " orphaned entries from ChromaDB")]
        ELSE [db |-> db, out |-> Returned("No orphaned entries found")]

\* the tag name a stored document shows (lines 262-265)
RECURSIVE first_line(_)
first_line(s) ==
    IF s = "" \/ SubSeq(s, 1, 1) = "\n" THEN ""
    ELSE SubSeq(s, 1, 1) \o first_line(SubSeq(s, 2, Len(s)))

doc_tag(doc) ==
    IF startswith(doc, "Tag: ")
    THEN LET line == first_line(doc) IN strip(SubSeq(line, 6, Len(line)))
    ELSE ""

----------------------------------------------------------------------------
(* The script runs *)

NoForm == [description |-> "", merge_instruction |-> "", category |-> ""]

\* lines 131-140
current_tag_of(new_tag_input, selected_tag) ==
    IF strip(new_tag_input) # "" THEN strip(new_tag_input) ELSE selected_tag

\* lines 160-165
new_entry_of(current_tag, form) ==
    [tag |-> current_tag,
     description |-> strip(form.description),
     merge_instruction |-> strip(form.merge_instruction),
     category |-> strip(form.category)]

\* the filter of lines 168 and 187 left out
without_tag_unfiltered(data, current_tag) == data

\* line 168 and line 187
without_tag(data, current_tag) == SelectSeq(data, LAMBDA t : t["tag"] # current_tag)

IsError(out) == out.kind = "return" /\ startswith(out.value, "Error")

\* the last run was a Save whose upsert reached the Index Store and was applied
UpsertDone(l) ==
    /\ l.op = "save"
    /\ l.step2 = "called"
    /\ ~IsError(l.outs[1])

\* the last run was a Delete whose Index Store step did not remove anything
HalfDeleted(l) ==
    /\ l.op = "delete"
    /\ (l.step2 # "called" \/ IsError(l.outs[1]))

\* what the Index Store does to one run of a handler: the script got no db,
\* the run ended between its two steps, or the db calls went as named
step2_of(env) == IF env \in {"no_db", "crash"} THEN env ELSE "called"
fault_of(env) == IF env \in Faults THEN env ELSE "none"

Observed(op, tag, form, step2, faults, outs, follows) ==
    [op |-> op, tag |-> tag, form |-> form, step2 |-> step2,
     faults |-> faults, outs |-> outs, follows |-> follows]

Init ==
    /\ tags_data \in SeqsUpTo(JsonRecords, MaxJsonLen)
    /\ chroma = EmptyDict
    /\ hash_seed \in Seeds
    /\ sync_status = EmptyDict
    /\ last = Observed("start", "", NoForm, "none", <<>>, <<>>, "none")

\* a run of the script with no button pressed (lines 109-117)
Render(db_ok) ==
    /\ sync_status' = script_sync_status(db_ok, tags_data, chroma)
    /\ last' = Observed("render", "", NoForm, IF db_ok THEN "called" ELSE "no_db",
                        <<>>, <<>>, "none")
    /\ UNCHANGED <<tags_data, chroma, hash_seed>>

\* the Save button (lines 159-182); with a db the handler ends in st.rerun(),
\* which computes sync_status again
Save(new_tag_input, selected_tag, form, env) ==
    LET current_tag == current_tag_of(new_tag_input, selected_tag)
        new_entry == new_entry_of(current_tag, form)
        step2 == step2_of(env)
        r == sync_tag_to_chroma(new_entry, chroma, fault_of(env))
    IN  /\ current_tag # ""
        /\ tags_data' = Append(without_tag(tags_data, current_tag), new_entry)
        /\ chroma' = IF step2 = "called" THEN r.db ELSE chroma
        /\ sync_status' = script_sync_status(step2 = "called", tags_data', chroma')
        /\ last' = Observed("save", current_tag, form, step2,
                            IF step2 = "called" THEN <<env>> ELSE <<>>,
                            IF step2 = "called" THEN <<r.out>> ELSE <<>>,
                            IF /\ step2 = "called"
                               /\ UpsertDone(last)
                               /\ new_entry_of(last.tag, last.form) = new_entry
                            THEN "repeat" ELSE "none")
        /\ UNCHANGED hash_seed

\* the Delete button (lines 185-200)
Delete(new_tag_input, selected_tag, env) ==
    LET current_tag == current_tag_of(new_tag_input, selected_tag)
        step2 == step2_of(env)
        r == remove_tag_from_chroma(current_tag, chroma, fault_of(env))
    IN  /\ current_tag # ""
        /\ selected_tag # ""
        /\ tags_data' = without_tag(tags_data, current_tag)
        /\ chroma' = IF step2 = "called" THEN r.db ELSE chroma
        /\ sync_status' = script_sync_status(step2 = "called", tags_data', chroma')
        /\ last' = Observed("delete", current_tag, NoForm, step2,
                            IF step2 = "called" THEN <<env>> ELSE <<>>,
                            IF step2 = "called" THEN <<r.out>> ELSE <<>>,
                            IF step2 = "called" /\ UpsertDone(last) /\ last.tag = current_tag
                            THEN "after_upsert"
                            ELSE IF /\ step2 = "called"
                                    /\ last.op = "delete"
                                    /\ ~HalfDeleted(last)
                                    /\ last.tag = current_tag
                            THEN "repeat" ELSE "none")
        /\ UNCHANGED hash_seed

\* the loop of Sync All Tags (lines 219-225): an exception of one call is
\* caught and the loop goes on
RECURSIVE sync_all(_, _, _, _)
sync_all(data, db, faults, i) ==
    IF i > Len(data) THEN [db |-> db, outs |-> <<>>]
    ELSE LET r == sync_tag_to_chroma(data[i], db, faults[i])
             rest == sync_all(data, r.db, faults, i + 1)
         IN  [db |-> rest.db, outs |-> <<r.out>> \o rest.outs]

\* the Sync All Tags button (lines 206-227), shown only with a db and a
\* non-empty sync_status
SyncAll(faults) ==
    LET r == sync_all(tags_data, chroma, faults, 1)
    IN  /\ tags_data # <<>>
        /\ \A i \in DOMAIN tags_data :
              format_entry(tags_data[i]).raised => faults[i] = "none"
        /\ chroma' = r.db
        /\ sync_status' = script_sync_status(TRUE, tags_data, chroma')
        /\ last' = Observed("sync_all", "", NoForm, "called", faults, r.outs, "none")
        /\ UNCHANGED <<tags_data, hash_seed>>

\* the Clean Orphaned Entries button (lines 404-407)
CleanOrphans(env) ==
    LET step2 == step2_of(env)
        r == clean_orphaned_chroma_entries(tags_data, chroma, fault_of(env))
        t == last.tag
    IN  /\ env # "crash"
        /\ (env = "write") =>
              (DOMAIN chroma \ {get_tag_id(x) : x \in TagsOf(tags_data)}) # {}
        /\ chroma' = IF step2 = "called" THEN r.db ELSE chroma
        /\ sync_status' = script_sync_status(step2 = "called", tags_data, chroma')
        /\ last' = Observed("clean", "", NoForm, step2,
                            IF step2 = "called" THEN <<env>> ELSE <<>>,
                            IF step2 = "called" THEN <<r.out>>
                            ELSE <<Returned("ChromaDB not available")>>,
                            IF /\ step2 = "called"
                               /\ HalfDeleted(last)
                               /\ t \notin TagsOf(tags_data)
                               /\ \E id \in DOMAIN chroma : doc_tag(chroma[id]) = t
                            THEN "after_half_delete" ELSE "none")
        /\ UNCHANGED <<tags_data, hash_seed>>

\* the server process ends and a new one starts: hash() is salted anew
Restart(seed) ==
    /\ hash_seed' = seed
    /\ sync_status' = EmptyDict
    /\ last' = Observed("restart", "", NoForm, "none", <<>>, <<>>, "none")
    /\ UNCHANGED <<tags_data, chroma>>

\* what the user can type and choose
NewTagInputs == {"", " a", "b "}

Forms == {[description |-> d, merge_instruction |-> "", category |-> ""] : d \in {"d", " d"}}

Envs == {"no_db", "crash"} \cup Faults

\* the db calls of one loop: at most one of them fails
LoopFaults(n) ==
    {f \in [1..n -> Faults] : Cardinality({i \in 1..n : f[i] # "none"}) <= 1}

\* the choices of the select box that make a difference: selected_tag is read
\* for its value only when new_tag_input is blank (lines 132-136), else only
\* for being non-empty (line 185)
SelectedFor(new_tag_input) ==
    IF strip(new_tag_input) = "" THEN TagsOf(tags_data)
    ELSE IF tags_data = <<>> THEN {}
    ELSE {tags_data[1]["tag"]}

Next ==
    \/ \E db_ok \in BOOLEAN : Render(db_ok)
    \/ \E n \in NewTagInputs, f \in Forms, env \in Envs \ {"crash"} :
          \E s \in (IF strip(n) = "" THEN SelectedFor(n) ELSE {""}) : Save(n, s, f, env)
    \/ \E n \in NewTagInputs, env \in Envs \ {"get"} :
          \E s \in SelectedFor(n) : Delete(n, s, env)
    \/ \E faults \in LoopFaults(Len(tags_data)) : SyncAll(faults)
    \/ \E env \in Envs : CleanOrphans(env)
    \/ \E seed \in Seeds : Restart(seed)

Spec == Init /\ [][Next]_vars

----------------------------------------------------------------------------
(* What a run of a handler shows *)

\* the one db call of the run was made and came back without an error
CallDone(l) ==
    /\ l.step2 = "called"
    /\ Len(l.outs) = 1
    /\ l.outs[1].kind = "return"
    /\ ~IsError(l.outs[1])

\* the ids derived from the tags of the store
ExpectedIds(data) == {get_tag_id(t) : t \in TagsOf(data)}

\* the record whose upsert was the last db call of run l over the store data,
\* when that upsert was applied
UpsertedLast(l, data) ==
    IF UpsertDone(l) THEN {new_entry_of(l.tag, l.form)}
    ELSE IF /\ l.op = "sync_all"
            /\ l.outs[Len(l.outs)].kind = "return"
            /\ ~IsError(l.outs[Len(l.outs)])
    THEN {data[Len(data)]}
    ELSE {}

\* the record whose upsert was the only db call of run l over the store data
UpsertedOnly(l, data) ==
    IF l.op = "save" /\ l.step2 = "called" THEN {new_entry_of(l.tag, l.form)}
    ELSE IF l.op = "sync_all" /\ Len(data) = 1 THEN {data[1]}
    ELSE {}

----------------------------------------------------------------------------
\* what a step of a reconciliation that succeeded does to the Index Store
C1_CleanStep ==
    (last'.op = "clean" /\ CallDone(last')) =>
        LET E == ExpectedIds(tags_data)
            A == DOMAIN chroma
        IN  /\ DOMAIN chroma' = E \cap A
            /\ \A id \in DOMAIN chroma : id \notin E => db_get(chroma', {id}) = {}
            /\ \A id \in E \cap A : chroma'[id] = chroma[id]

(* C1: a reconciliation whose delete succeeds leaves the Index Store with    *)
(* exactly the ids E \cap A, E the ids derived from the tags of the Record   *)
(* Store and A the ids the Index Store held before: every id outside E is    *)
(* gone and every id in E keeps its document.                                *)
C1_ReconcileIsSetDifference == [][C1_CleanStep]_vars

\* a reconciliation removed one entry and kept another
C1_Witness ==
    /\ last.op = "clean"
    /\ last.outs = <<Returned("Removed 1 orphaned entries from ChromaDB")>>
    /\ DOMAIN chroma # {}

(* C2: get_tag_id gives every tag the same id at every call, within one      *)
(* process and from one process to the next.                                 *)
C2_IdStable == [][\A t \in TagNames : get_tag_id(t)' = get_tag_id(t)]_vars

\* the mapping a run with a db leaves, and the stores over a run without a button
C3_Step ==
    /\ last'.step2 = "called" =>
          /\ DOMAIN sync_status' = TagsOf(tags_data')
          /\ \A t \in TagsOf(tags_data') :
                /\ sync_status'[t] \in BOOLEAN
                /\ sync_status'[t] <=> (get_tag_id(t)' \in DOMAIN chroma')
    /\ last'.op = "render" => tags_data' = tags_data /\ chroma' = chroma

(* C3: the mapping check_sync_status returns has one boolean entry for each  *)
(* tag of the collection and no other key, the entry of a tag being true     *)
(* exactly when the tag's derived id is among the existing ids; computing it *)
(* changes neither store.                                                    *)
C3_SyncStatusTotalAndCorrect == [][C3_Step]_vars

\* a mapping with a synced and an unsynced tag
C3_Witness ==
    /\ last.op = "render"
    /\ last.step2 = "called"
    /\ \E t, u \in DOMAIN sync_status : sync_status[t] /\ ~sync_status[u]

\* an upsert right after an applied upsert of the same record
C4_Step ==
    \A r \in UpsertedLast(last, tags_data) :
        r \in UpsertedOnly(last', tags_data') => chroma' = chroma

(* C4: an upsert that follows at once an applied upsert of the same record   *)
(* content leaves the Index Store as that first upsert left it: the same ids *)
(* and the same documents.                                                   *)
C4_UpsertIdempotent == [][C4_Step]_vars

\* a Save repeated with the same content found its entry and updated it
C4_Witness ==
    /\ last.op = "save"
    /\ last.follows = "repeat"
    /\ last.outs = <<Returned("Updated tag '" \o last.tag \o "' in ChromaDB")>>

\* the entry an applied upsert leaves, and the remove that follows it
C5_Step ==
    /\ \A r \in UpsertedLast(last', tags_data') :
          LET id == get_tag_id(r["tag"])'
          IN  /\ db_get(chroma', {id}) = {id}
              /\ Cardinality({i \in DOMAIN chroma' : i = id}) = 1
              /\ chroma'[id] = format_entry(r).text
              /\ startswith(chroma'[id],
                            "Tag: " \o r["tag"] \o "\nDescription: " \o r["description"] \o "\n")
    /\ \A r \in UpsertedLast(last, tags_data) :
          (last'.op = "delete" /\ last'.tag = r["tag"] /\ CallDone(last')) =>
              db_get(chroma', {get_tag_id(r["tag"])}) = {}

(* C5: after a successful upsert of a record the Index Store holds one entry *)
(* under the record's derived id, and its document is the formatted text of  *)
(* the record, which begins with the line Tag: <tag> followed by the line    *)
(* Description: <description>; after a remove of the same tag that follows,  *)
(* a get by that id returns no id.                                           *)
C5_UpsertThenRemove == [][C5_Step]_vars

\* a Delete removed the entry the Save before it had written
C5_Witness ==
    /\ last.op = "delete"
    /\ last.follows = "after_upsert"
    /\ last.outs = <<Returned("Removed tag '" \o last.tag \o "' from ChromaDB")>>

\* a remove of an id the Index Store lacks, the delete call going through
C6_Step ==
    (last'.op = "delete" /\ last'.step2 = "called" /\ last'.faults = <<"none">>) =>
        LET absent == get_tag_id(last'.tag) \notin DOMAIN chroma
            twice == last.op = "delete" /\ CallDone(last) /\ last.tag = last'.tag
        IN  (absent \/ twice) =>
                /\ last'.outs = <<Returned("Removed tag '" \o last'.tag \o "' from ChromaDB")>>
                /\ chroma' = chroma

(* C6: removing a tag whose derived id is not in the Index Store, as when   *)
(* the same tag was removed by the run before, is no error when the delete   *)
(* call itself goes through: the call reports the removal and leaves the     *)
(* Index Store as it was.                                                    *)
C6_RemoveIdempotent == [][C6_Step]_vars

\* the same tag was removed twice in a row, both times without an error
C6_Witness ==
    /\ last.op = "delete"
    /\ last.follows = "repeat"
    /\ last.faults = <<"none">>
    /\ ~IsError(last.outs[1])

(* C7: sync_tag_to_chroma never lets a failure reach its caller: every call  *)
(* returns a status that begins Added tag, Updated tag or Error syncing tag, *)
(* and it is the error status whenever a db call of it failed.               *)
C7_SyncNeverPropagates ==
    (last.op \in {"save", "sync_all"} /\ last.step2 = "called") =>
        \A i \in DOMAIN last.outs :
            /\ last.outs[i].kind = "return"
            /\ \/ startswith(last.outs[i].value, "Added tag")
               \/ startswith(last.outs[i].value, "Updated tag")
               \/ startswith(last.outs[i].value, "Error syncing tag")
            /\ last.faults[i] # "none" => startswith(last.outs[i].value, "Error syncing tag")

(* C8: a record without description, merge_instruction or category is        *)
(* formatted and upserted without a failure, the field that is absent        *)
(* standing in the document as the empty string.                             *)
C8_MalformedTolerated ==
    last.op = "sync_all" =>
        \A i \in DOMAIN tags_data :
            LET r == tags_data[i]
                n == Len(tags_data)
            IN  ({"description", "merge_instruction", "category"} \ DOMAIN r # {}) =>
                    /\ last.outs[i].kind = "return"
                    /\ (i = n /\ ~IsError(last.outs[i])) =>
                          chroma[get_tag_id(r["tag"])] =
                              "Tag: " \o r["tag"] \o "\n"
                              \o "Description: " \o dict_get(r, "description", "") \o "\n"
                              \o "Instruction: " \o dict_get(r, "merge_instruction", "") \o "\n"
                              \o "Category: " \o dict_get(r, "category", "") \o "\n"

\* no two records of the store share a tag
Unique(data) ==
    \A i, j \in DOMAIN data : data[i]["tag"] = data[j]["tag"] => i = j

\* the record a Save leaves last, its fields as the form gave them
SubmittedRecord(l) ==
    [tag |-> l.tag,
     description |-> l.form.description,
     merge_instruction |-> l.form.merge_instruction,
     category |-> l.form.category]

\* the same with every field stripped of the white space around it
StrippedRecord(l) ==
    [tag |-> l.tag,
     description |-> strip(l.form.description),
     merge_instruction |-> strip(l.form.merge_instruction),
     category |-> strip(l.form.category)]

\* what a Save and a Delete do to the records of their tag
C9_KeyStep ==
    /\ (last'.op \in {"save", "delete"} /\ Unique(tags_data)) => Unique(tags_data')
    /\ last'.op = "save" =>
          Cardinality({i \in DOMAIN tags_data' : tags_data'[i]["tag"] = last'.tag}) = 1
    /\ last'.op = "delete" => last'.tag \notin TagsOf(tags_data')

(* C9: the tag is a key of the Record Store.  A Save or a Delete on a store  *)
(* where no two records share a tag leaves such a store; a Save for tag t    *)
(* leaves exactly one record for t, last in the order and holding exactly    *)
(* the submitted fields; a Delete for t leaves no record for t.              *)
C9_TagIsKeyExact ==
    [][/\ C9_KeyStep
       /\ last'.op = "save" => tags_data'[Len(tags_data')] = SubmittedRecord(last')]_vars

(* C9 as amended: the same, the record a Save leaves holding the submitted   *)
(* fields each stripped of the white space around it, and nothing of the     *)
(* record it replaces.                                                       *)
C9_TagIsKey ==
    [][/\ C9_KeyStep
       /\ last'.op = "save" => tags_data'[Len(tags_data')] = StrippedRecord(last')]_vars

\* a Save put its record last in a store of two tags, the description stripped
C9_Witness ==
    /\ last.op = "save"
    /\ Len(tags_data) = 2
    /\ Unique(tags_data)
    /\ last.form.description = " d"
    /\ tags_data[2]["tag"] = last.tag
    /\ tags_data[2]["description"] = "d"

\* the entries whose document names a tag the Record Store lacks
AbsentTagEntries(db, data) ==
    {id \in DOMAIN db : doc_tag(db[id]) \notin TagsOf(data)}

\* the reconciliation right after a Delete whose Index Store step did not happen
C10_StepAsStated ==
    (/\ HalfDeleted(last)
     /\ last.tag \notin TagsOf(tags_data)
     /\ last'.op = "clean"
     /\ CallDone(last')) =>
        /\ \A id \in DOMAIN chroma : doc_tag(chroma[id]) = last.tag => id \notin DOMAIN chroma'
        /\ AbsentTagEntries(chroma', tags_data') = {}

(* C10: when a Delete took tag t out of the Record Store and its Index Store *)
(* step did not happen, the successful reconciliation that follows removes   *)
(* the entry of t, and no entry is left for a tag the Record Store lacks.    *)
C10_ReconcileRepairsDelete == [][C10_StepAsStated]_vars

\* what a reconciliation that succeeded does to the entries of absent tags
C10_StepAmended ==
    (last'.op = "clean" /\ CallDone(last')) =>
        /\ \A id \in AbsentTagEntries(chroma, tags_data) :
              id \notin ExpectedIds(tags_data) => id \notin DOMAIN chroma'
        /\ DOMAIN chroma' \subseteq ExpectedIds(tags_data')

(* C10 as amended: a successful reconciliation removes the entry of every    *)
(* tag the Record Store lacks, that of a tag t whose Delete never reached    *)
(* the Index Store among them, unless the id of the entry is the derived id  *)
(* of a tag the Record Store holds; every id it leaves is such a derived id. *)
C10_ReconcileRepairsUncollided == [][C10_StepAmended]_vars

\* a reconciliation right after a Delete that left t's entry behind removed it
C10_Witness ==
    /\ last.op = "clean"
    /\ last.follows = "after_half_delete"
    /\ startswith(last.outs[1].value, "Removed")
    /\ AbsentTagEntries(chroma, tags_data) = {}

\* the entry under the derived id of tag u is there or not, and holds the same
\* document, before and after the step; so does u's entry of the sync status
SameEntryOf(u) ==
    LET id == get_tag_id(u)
    IN  /\ db_get(chroma', {id}) = db_get(chroma, {id})
        /\ id \in DOMAIN chroma => chroma'[id] = chroma[id]
        /\ check_sync_status(tags_data', DOMAIN chroma')[u]
              = check_sync_status(tags_data, DOMAIN chroma)[u]

\* the step is the one upsert of a Save, or the one remove of a Delete, for a
\* tag t of the Record Store, and made its db call
TouchesTag(t) ==
    /\ last'.tag = t
    /\ last'.step2 = "called"
    /\ \/ last'.op = "save" /\ t \in TagsOf(tags_data')
       \/ last'.op = "delete" /\ t \in TagsOf(tags_data)

(* C11: for two distinct tags t and u of the Record Store, an upsert of t's  *)
(* record or a remove of t leaves the Index Store entry of u, its presence   *)
(* and its document, as it was, and with it u's sync status.                 *)
C11_OtherTagsUndisturbed ==
    [][\A t \in TagNames : TouchesTag(t) =>
          \A u \in (TagsOf(tags_data) \cap TagsOf(tags_data')) \ {t} : SameEntryOf(u)]_vars

(* C11 as amended: the same for two tags whose derived ids differ; two tags  *)
(* of one derived id share one entry, which the upsert or remove of either   *)
(* rewrites or deletes.                                                      *)
C11_OtherIdsUndisturbed ==
    [][\A t \in TagNames : TouchesTag(t) =>
          \A u \in (TagsOf(tags_data) \cap TagsOf(tags_data')) \ {t} :
              get_tag_id(u) # get_tag_id(t) => SameEntryOf(u)]_vars

\* a Save updated the entry of its tag while the other tag of the store kept
\* its own entry under another id
C11_Witness ==
    /\ last.op = "save"
    /\ last.outs = <<Returned("Updated tag '" \o last.tag \o "' in ChromaDB")>>
    /\ \E u \in TagsOf(tags_data) \ {last.tag} :
          /\ get_tag_id(u) # get_tag_id(last.tag)
          /\ get_tag_id(u) \in DOMAIN chroma
          /\ doc_tag(chroma[get_tag_id(u)]) = u

====
